---- MODULE Spec2Model ----
(***************************************************************************)
(* PandaBrew: the selection-and-report engine of app/core.py.              *)
(*                                                                         *)
(* A run of generate_report_to_file is modelled as a state machine: the    *)
(* arguments of the call are the state chosen by Init, and the run steps   *)
(* through gathering, writing the header and the structure, and writing    *)
(* one file block at a time, while the cancel event may be set by another  *)
(* thread between any two steps.                                           *)
(*                                                                         *)
(* A name is a sequence of characters (one-character strings), a Path is   *)
(* a sequence of names (pathlib's parts after the leading "/"), and        *)
(* Str(path) is the character sequence str(path) gives: the code compares  *)
(* Paths by their parts in some places and their strings by characters in  *)
(* others, and the model keeps the two apart.                              *)
(***************************************************************************)
EXTENDS Integers, Sequences, FiniteSets, TLC

\* Bounds of the enumerated inputs.
MaxSel == 3
MaxPat == 1

\* ------------------------------------------------------------------------
\* The file system the run reads: /r with
\*     s/m  s/M      a directory with two files whose names differ by case
\*     s2/e/x        a directory whose name extends "s", with a nested file
\*     L             a file at the root
SEP == "/"

source_path == << <<"r">> >>

Dirs ==
    { source_path \o << <<"s">> >>,
      source_path \o << <<"s", "2">> >>,
      source_path \o << <<"s", "2">>, <<"e">> >> }

Files ==
    { source_path \o << <<"s">>, <<"m">> >>,
      source_path \o << <<"s">>, <<"M">> >>,
      source_path \o << <<"s", "2">>, <<"e">>, <<"x">> >>,
      source_path \o << <<"L">> >> }

Entries == Dirs \cup Files

is_dir(path) == path \in Dirs \cup {source_path}

is_file(path) == path \in Files

\* Path.iterdir(): the entries directly inside a directory.
iterdir(current_path) ==
    { c \in Entries : /\ Len(c) = Len(current_path) + 1
                      /\ SubSeq(c, 1, Len(current_path)) = current_path }

\* Path.name
name(path) == path[Len(path)]

\* Path.relative_to(base), for a path at or below base.
relative_to(path, base) == SubSeq(path, Len(base) + 1, Len(path))

\* Path.is_relative_to(other): comparison by parts.
is_relative_to(path, other) ==
    /\ Len(other) <= Len(path)
    /\ SubSeq(path, 1, Len(other)) = other

\* str(path) of an absolute path: "/" before every part.
RECURSIVE Str(_)
Str(path) ==
    IF path = <<>> THEN <<>>
    ELSE <<SEP>> \o Head(path) \o Str(Tail(path))

\* str(path) of a relative path: the parts joined by "/".
RECURSIVE RelStr(_)
RelStr(rel) ==
    IF rel = <<>> THEN <<>>
    ELSE IF Len(rel) = 1 THEN Head(rel)
    ELSE Head(rel) \o <<SEP>> \o RelStr(Tail(rel))

\* str.startswith
startswith(s, t) == Len(t) <= Len(s) /\ SubSeq(s, 1, Len(t)) = t

\* fnmatch.fnmatch on POSIX (case-sensitive): "*" matches any run of
\* characters, "/" included, "?" any one character, anything else itself.
\* The patterns of this model hold no "[".
RECURSIVE fnmatch(_, _)
fnmatch(s, pat) ==
    IF pat = <<>> THEN s = <<>>
    ELSE IF Head(pat) = "*"
         THEN fnmatch(s, Tail(pat)) \/ (s # <<>> /\ fnmatch(Tail(s), pat))
    ELSE /\ s # <<>>
         /\ (Head(pat) = "?" \/ Head(pat) = Head(s))
         /\ fnmatch(Tail(s), Tail(pat))

\* _matches_pattern(path, patterns), path relative to the source root.
_matches_pattern(rel, patterns) ==
    \E i \in 1..Len(patterns) :
        \/ fnmatch(RelStr(rel), patterns[i])
        \/ fnmatch(name(rel), patterns[i])

\* any(str(path).startswith(str(ms)) for ms in manual_selections)
AnyStartswith(path, manual_sel) ==
    \E ms \in manual_sel : startswith(Str(path), Str(ms))

\* ------------------------------------------------------------------------
\* Orderings used by the two sorts of the run.

\* ord() of the characters that occur in names.
Ord ==
    [c \in {"/", "2", "L", "M", "e", "l", "m", "r", "s", "x"} |->
        CASE c = "/" -> 47 [] c = "2" -> 50 [] c = "L" -> 76 [] c = "M" -> 77
          [] c = "e" -> 101 [] c = "l" -> 108 [] c = "m" -> 109
          [] c = "r" -> 114 [] c = "s" -> 115 [] c = "x" -> 120]

\* str.lower()
lower(s) ==
    [i \in 1..Len(s) |->
        CASE s[i] = "L" -> "l" [] s[i] = "M" -> "m" [] OTHER -> s[i]]

\* s < t for two strings (code-point order).
RECURSIVE StrLess(_, _)
StrLess(s, t) ==
    IF t = <<>> THEN FALSE
    ELSE IF s = <<>> THEN TRUE
    ELSE IF Head(s) # Head(t) THEN Ord[Head(s)] < Ord[Head(t)]
    ELSE StrLess(Tail(s), Tail(t))

\* a < b for two Paths: pathlib compares the lists of parts.
RECURSIVE PathLess(_, _)
PathLess(a, b) ==
    IF b = <<>> THEN FALSE
    ELSE IF a = <<>> THEN TRUE
    ELSE IF Head(a) # Head(b) THEN StrLess(Head(a), Head(b))
    ELSE PathLess(Tail(a), Tail(b))

\* Mutant of SortedPaths: the list is sorted in descending order.
RECURSIVE SortedPaths_desc(_)
SortedPaths_desc(S) ==
    IF S = {} THEN <<>>
    ELSE LET m == CHOOSE x \in S : \A y \in S \ {x} : PathLess(y, x)
         IN  <<m>> \o SortedPaths_desc(S \ {m})

\* sorted(list(files_to_process))
RECURSIVE SortedPaths(_)
SortedPaths(S) ==
    IF S = {} THEN <<>>
    ELSE LET m == CHOOSE x \in S : \A y \in S \ {x} : PathLess(x, y)
         IN  <<m>> \o SortedPaths(S \ {m})

\* key=lambda p: (p.is_file(), p.name.lower()), as a strict order.
ChildKeyLess(a, b) ==
    \/ ~is_file(a) /\ is_file(b)
    \/ /\ is_file(a) = is_file(b)
       /\ StrLess(lower(name(a)), lower(name(b)))

\* The order in which the operating system lists directory entries is not
\* specified. A listing is a sequence of all entries; iterdir yields the
\* children of a directory in the order they have in it. Two listings are
\* kept: ascending and descending by path.
Reverse(seq) == [i \in 1..Len(seq) |-> seq[Len(seq) + 1 - i]]

ListingOrders == { SortedPaths(Entries), Reverse(SortedPaths(Entries)) }

\* The position of an entry in a listing.
Pos(listing, path) == CHOOSE i \in 1..Len(listing) : listing[i] = path

\* sorted(list(current_path.iterdir()), key=...): the sort is stable, two
\* entries with the same key (two files or two directories whose names
\* differ by case only) stay in the order of the listing.
RECURSIVE SortedChildren(_, _)
SortedChildren(S, listing) ==
    IF S = {} THEN <<>>
    ELSE LET m == CHOOSE x \in S : \A y \in S \ {x} :
                      \/ ChildKeyLess(x, y)
                      \/ /\ ~ChildKeyLess(y, x)
                         /\ Pos(listing, x) < Pos(listing, y)
         IN  <<m>> \o SortedChildren(S \ {m}, listing)

\* ------------------------------------------------------------------------
\* Gathering: _gather_files_recursively and the selection logic of
\* generate_report_to_file.

\* is_path_manually_excluded of _gather_files_recursively.
is_path_manually_excluded(path, incl_mode, manual_sel) ==
    ~incl_mode /\ AnyStartswith(path, manual_sel)

\* Mutant of FileAdmitted: the include-mode test is lost.
FileAdmitted_always(path, incl_mode, manual_sel, pattern_included) == TRUE

\* The inclusion check of a file that was not pruned.
FileAdmitted(path, incl_mode, manual_sel, pattern_included) ==
    IF incl_mode
    THEN AnyStartswith(path, manual_sel) \/ pattern_included
    ELSE TRUE

\* Whether the loop body reaches "continue" for this entry.
Pruned(path, incl_mode, manual_sel, incl_pats, excl_pats) ==
    LET relative_path == relative_to(path, source_path)
    IN  /\ ~_matches_pattern(relative_path, incl_pats)
        /\ \/ is_path_manually_excluded(path, incl_mode, manual_sel)
           \/ _matches_pattern(relative_path, excl_pats)

\* Mutant of _gather_files_recursively: directories are not descended into.
_gather_files_flat(current_path, incl_mode, manual_sel, incl_pats, excl_pats) ==
    { path \in iterdir(current_path) :
        /\ ~Pruned(path, incl_mode, manual_sel, incl_pats, excl_pats)
        /\ is_file(path)
        /\ FileAdmitted(path, incl_mode, manual_sel,
               _matches_pattern(relative_to(path, source_path), incl_pats)) }

RECURSIVE _gather_files_recursively(_, _, _, _, _)
_gather_files_recursively(current_path, incl_mode, manual_sel, incl_pats, excl_pats) ==
    UNION
    { IF Pruned(path, incl_mode, manual_sel, incl_pats, excl_pats) THEN {}
      ELSE IF is_dir(path)
           THEN _gather_files_recursively(path, incl_mode, manual_sel,
                                          incl_pats, excl_pats)
      ELSE IF is_file(path)
              /\ FileAdmitted(path, incl_mode, manual_sel,
                     _matches_pattern(relative_to(path, source_path),
                                      incl_pats))
           THEN {path}
      ELSE {}
      : path \in iterdir(current_path) }

\* Mutant of initial_paths: the walk always starts at the source root.
initial_paths_root(manual_sel) == {source_path}

\* initial_paths = manual_selections if manual_selections else {source_path}
initial_paths(manual_sel) ==
    IF manual_sel # {} THEN manual_sel ELSE {source_path}

\* One turn of the loop over initial_paths in include mode.
StartPathFiles(start_path, incl_mode, manual_sel, incl_pats, excl_pats) ==
    IF is_dir(start_path)
    THEN _gather_files_recursively(start_path, incl_mode, manual_sel,
                                   incl_pats, excl_pats)
    ELSE IF is_file(start_path)
    THEN LET relative_path == relative_to(start_path, source_path)
         IN  IF \/ _matches_pattern(relative_path, incl_pats)
                \/ ~_matches_pattern(relative_path, excl_pats)
             THEN {start_path}
             ELSE {}
    ELSE {}

\* files_to_process of a run that is not cancelled while gathering.
GatherAll(incl_mode, manual_sel, incl_pats, excl_pats) ==
    IF incl_mode
    THEN UNION { StartPathFiles(start_path, incl_mode, manual_sel,
                                incl_pats, excl_pats)
                 : start_path \in initial_paths(manual_sel) }
    ELSE _gather_files_recursively(source_path, incl_mode, manual_sel,
                                   incl_pats, excl_pats)

\* The relative path of the source root itself is Path("."): its string is
\* "." and its name is empty.
_matches_pattern_root(patterns) ==
    \E i \in 1..Len(patterns) :
        \/ fnmatch(<<".">>, patterns[i])
        \/ fnmatch(<<>>, patterns[i])

\* files_to_process when source_path_str names no directory. Nothing below
\* it is a file or a directory and iterdir raises an OSError that
\* _gather_files_recursively swallows; a source that is a regular file is
\* itself a start path of include mode when the selection is empty or
\* holds it.
GatherNoDir(kind, incl_mode, manual_sel, incl_pats, excl_pats) ==
    IF /\ kind = "file"
       /\ incl_mode
       /\ source_path \in initial_paths(manual_sel)
       /\ \/ _matches_pattern_root(incl_pats)
          \/ ~_matches_pattern_root(excl_pats)
    THEN {source_path}
    ELSE {}

\* files_to_process of a run that is not cancelled while gathering, for
\* every kind of source.
SourceFiles(kind, incl_mode, manual_sel, incl_pats, excl_pats) ==
    IF kind = "dir"
    THEN GatherAll(incl_mode, manual_sel, incl_pats, excl_pats)
    ELSE GatherNoDir(kind, incl_mode, manual_sel, incl_pats, excl_pats)

\* ------------------------------------------------------------------------
\* The report. The output file is a sequence of records, one per line of
\* the header and of the structure and one per file block. The connectors
\* and indents stand for the box-drawing strings of the source.
CONNECTOR_LAST == "+-- "
CONNECTOR_MID == "|-- "
INDENT_LAST == "    "
INDENT_MID == "|   "

\* _write_report_header; the timestamp line is not modelled.
_write_report_header(incl_mode) ==
    << [kind |-> "header",
        mode |-> IF incl_mode THEN "INCLUDE" ELSE "EXCLUDE"] >>

\* has_included_sibling of build_tree.
has_included_sibling(children, files) ==
    \E i \in 1..Len(children) :
        \/ children[i] \in files
        \/ \E p \in files : is_relative_to(p, children[i])

\* is_parent_of_processed of build_tree.
is_parent_of_processed(child, files) ==
    is_dir(child) /\ \E p \in files : is_relative_to(p, child)

\* Mutant of should_show: excluded siblings are shown whatever show_excluded
\* is.
should_show_siblings(child, files, show_excl, has_incl) ==
    \/ child \in files
    \/ is_parent_of_processed(child, files)
    \/ has_incl

\* should_show of build_tree.
should_show(child, files, show_excl, has_incl) ==
    \/ child \in files
    \/ is_parent_of_processed(child, files)
    \/ show_excl /\ has_incl

\* Mutant of Recurse: build_tree never descends.
Recurse_never(child, files, show_excl, has_incl) == FALSE

\* The decision to recurse into a directory that was printed.
Recurse(child, files, show_excl, has_incl) ==
    \/ is_parent_of_processed(child, files)
    \/ show_excl /\ has_incl

RECURSIVE build_tree(_, _, _, _, _)
RECURSIVE TreeLoop(_, _, _, _, _, _)

\* The for loop of build_tree from its i-th turn on.
TreeLoop(children, i, prefix, files, show_excl, listing) ==
    IF i > Len(children) THEN <<>>
    ELSE
      LET child == children[i]
          is_last == (i = Len(children))
          has_incl == has_included_sibling(children, files)
          line == [kind |-> "entry",
                   prefix |-> prefix,
                   connector |-> IF is_last THEN CONNECTOR_LAST
                                 ELSE CONNECTOR_MID,
                   path |-> child,
                   excluded |-> is_file(child) /\ child \notin files]
          below == IF is_dir(child)
                      /\ Recurse(child, files, show_excl, has_incl)
                   THEN build_tree(child,
                            prefix \o <<IF is_last THEN INDENT_LAST
                                        ELSE INDENT_MID>>,
                            files, show_excl, listing)
                   ELSE <<>>
      IN  (IF should_show(child, files, show_excl, has_incl)
           THEN <<line>> \o below
           ELSE <<>>)
          \o TreeLoop(children, i + 1, prefix, files, show_excl, listing)

build_tree(current_path, prefix, files, show_excl, listing) ==
    TreeLoop(SortedChildren(iterdir(current_path), listing), 1, prefix,
             files, show_excl, listing)

\* _write_project_structure
_write_project_structure(files, show_excl, listing) ==
    << [kind |-> "structure"], [kind |-> "root", name |-> name(source_path)] >>
    \o build_tree(source_path, <<>>, files, show_excl, listing)

\* The structure section for every kind of source: when the source is no
\* directory, iterdir raises in build_tree, which returns, and the root
\* line stands alone.
SourceStructure(kind, files, show_excl, listing) ==
    IF kind = "dir"
    THEN _write_project_structure(files, show_excl, listing)
    ELSE << [kind |-> "structure"],
            [kind |-> "root", name |-> name(source_path)] >>

\* One file block of _write_file_contents: the line that names the file,
\* the stripped content or, when read_text raised, the error line, and the
\* closing delimiter.
FileBlock(path, read_ok) ==
    << [kind |-> "file", rel |-> relative_to(path, source_path)],
       [kind |-> "body",
        text |-> IF read_ok THEN "content" ELSE "[Error reading file]"],
       [kind |-> "close"] >>

\* ------------------------------------------------------------------------
\* The inputs that are enumerated.

\* ManualSelection: sets of at most MaxSel paths among the source root and
\* the entries below it.
Selections ==
    { S \in SUBSET (Entries \cup {source_path}) : Cardinality(S) <= MaxSel }

\* The glob patterns pattern lists are made of: "s", "*m" and "s/?".
PatternPool == << <<"s">>, <<"*", "m">>, <<"s", SEP, "?">> >>

RECURSIVE PatternListOf(_)
PatternListOf(I) ==
    IF I = {} THEN <<>>
    ELSE LET i == CHOOSE k \in I : \A j \in I : k <= j
         IN  <<PatternPool[i]>> \o PatternListOf(I \ {i})

\* Pattern lists of at most MaxPat patterns, in the order of the pool
\* (_matches_pattern does not depend on the order).
PatternLists ==
    { PatternListOf(I) :
        I \in { J \in SUBSET (1..Len(PatternPool)) : Cardinality(J) <= MaxPat } }

\* The parameters of generate_report_to_file.
Signature ==
    { "output_file", "source_path_str", "include_mode",
      "manual_selections_str", "include_patterns", "exclude_patterns",
      "filenames_only", "show_excluded", "cancel_event",
      "progress_callback" }

\* The keywords of a call that fits the signature.
EngineCall == Signature \ {"progress_callback"}

\* The keywords of the call main of cli.py makes.
CliCall ==
    { "output_file", "source_path_str", "include_mode",
      "manual_selections_str", "global_include_patterns",
      "global_exclude_patterns", "filenames_only", "cancel_event",
      "progress_callback" }

\* The keywords of the call run_core_logic of tests/test_core.py makes.
TestCall == EngineCall \cup {"manual_exclusions_str"}

\* ------------------------------------------------------------------------
\* The state of one run.
VARIABLES
    call_keywords,          \* the keyword arguments the caller passes
    include_mode,
    manual_selections,
    manual_exclusions,      \* the override set a test passes
    include_patterns,
    exclude_patterns,
    filenames_only,
    show_excluded,
    cancel_event,           \* threading.Event: set or not
    pc,                     \* "start", "gathered", "contents", "returned",
                            \* "raised"
    files_to_process,
    files_to_process_sorted,
    opened,                 \* output_file was opened with mode "w"
    output,                 \* what was written to output_file
    idx,                    \* i of the loop of _write_file_contents
    result,                 \* the int returned, -1 before the return
    error,                  \* the exception that ended the call, or ""
    reads,                  \* the files read_text was called on
    cancelled_at_call,      \* the cancel event was set when the call began
    progress,               \* the percentages passed to progress_callback
    source_kind,            \* what source_path_str names: "dir", "file" or
                            \* "missing"
    exit_code,              \* the exit status of cli.py, -1 while it runs
    stderr,                 \* the messages cli.py printed to sys.stderr
    checked_paths,          \* TreeViewManager.checked_paths
    tree_items,             \* TreeViewManager.tree_items: the widgets shown
    last_check,             \* the last call of on_item_check, <<>> if none
    asked_path,             \* the path a selection predicate is asked about
    asked_set,              \* the checked set it is asked about
    answers,                \* what the selection predicates returned
    app_include_mode,       \* app.include_mode, the radio buttons
    app_filenames_only,     \* app.filenames_only, the checkbox
    is_processing,          \* ThreadedFileProcessor.is_processing
    processor_cancel_event, \* ThreadedFileProcessor.cancel_event
    progress_queue,         \* ThreadedFileProcessor.progress_queue
    workers,                \* the worker threads started so far
    warned                  \* the "Processing" warning was shown

vars ==
    << call_keywords, include_mode, manual_selections, manual_exclusions,
       include_patterns, exclude_patterns, filenames_only, show_excluded,
       cancel_event, pc, files_to_process, files_to_process_sorted, opened,
       output, idx, result, error, reads, cancelled_at_call, progress,
       source_kind, exit_code, stderr, checked_paths, tree_items,
       last_check,       asked_path, asked_set, answers, app_include_mode, app_filenames_only,
       is_processing, processor_cancel_event, progress_queue, workers,
       warned >>

inputs ==
    << call_keywords, include_mode, manual_selections, manual_exclusions,
       include_patterns, exclude_patterns, filenames_only, show_excluded,
       source_kind >>

\* The variables of the desktop application: the tree view, the selection
\* predicates and the threaded processor.
tree == << checked_paths, tree_items, last_check >>

asked == << asked_path, asked_set, answers >>

processor ==
    << app_include_mode, app_filenames_only, is_processing,
       processor_cancel_event, progress_queue, workers, warned >>

gui == << tree, asked, processor >>

\* TreeViewManager.__init__: nothing checked, nothing shown.
TreeIdle ==
    /\ checked_paths = {}
    /\ tree_items = [shown |-> {}, ticked |-> {}, expanded |-> {}]
    /\ last_check = <<>>

\* No selection predicate was called.
AskedIdle ==
    /\ asked_path = <<>>
    /\ asked_set = {}
    /\ answers = <<>>

\* ThreadedFileProcessor.__init__ and the defaults of the settings of
\* the application.
ProcessorIdle ==
    /\ app_include_mode = TRUE
    /\ app_filenames_only = FALSE
    /\ is_processing = FALSE
    /\ processor_cancel_event = FALSE
    /\ progress_queue = <<>>
    /\ workers = <<>>
    /\ warned = FALSE

\* The desktop application before anything was done in it.
GuiIdle == TreeIdle /\ AskedIdle /\ ProcessorIdle

\* The variables of the callers of the engine, which the engine leaves
\* alone.
ext == << exit_code, stderr, gui >>

\* The state before the first statement of the call.
RunStart ==
    /\ cancel_event = FALSE
    /\ pc = "start"
    /\ files_to_process = {}
    /\ files_to_process_sorted = <<>>
    /\ opened = FALSE
    /\ output = <<>>
    /\ idx = 0
    /\ result = -1
    /\ error = ""
    /\ reads = {}
    /\ cancelled_at_call = FALSE
    /\ progress = <<>>
    /\ exit_code = -1
    /\ stderr = <<>>
    /\ GuiIdle

\* A percentage is a fraction num/den: the code computes it by a float
\* division, the model keeps it exact.
Whole(n) == [num |-> n, den |-> 1]

RatLeq(a, b) == a.num * b.den <= b.num * a.den

\* Mutant of ContentProgress: the division by total_files is lost.
ContentProgress_undivided(i, total_files) == Whole(25 + i * 75)

\* progress = 25 + ((i / total_files) * 75 if total_files > 0 else 75)
ContentProgress(i, total_files) ==
    IF total_files > 0
    THEN [num |-> 25 * total_files + i * 75, den |-> total_files]
    ELSE Whole(25 + 75)

\* if progress_callback: progress_callback(value, ...)
ProgressCall(value) ==
    IF "progress_callback" \in call_keywords
    THEN progress' = Append(progress, value)
    ELSE UNCHANGED progress

\* Calls that fit the signature, over every enumerated input.
Init ==
    /\ call_keywords = EngineCall
    /\ include_mode \in BOOLEAN
    /\ manual_selections \in Selections
    /\ manual_exclusions = {}
    /\ include_patterns \in PatternLists
    /\ exclude_patterns \in PatternLists
    /\ filenames_only \in BOOLEAN
    /\ show_excluded \in BOOLEAN
    /\ source_kind = "dir"
    /\ RunStart

\* generate_report_to_file up to files_to_process_sorted: the binding of
\* the arguments, the gathering and the sort. A cancel event that is set
\* when the call starts ends include mode at the first start path and
\* leaves exclude mode with an empty set; a cancel event set while the
\* gathering runs is seen by the check that follows the sort (WriteReport).
Gather ==
    /\ pc = "start"
    /\ IF ~(call_keywords \subseteq Signature /\ EngineCall \subseteq call_keywords)
       THEN /\ pc' = "raised"
            /\ error' = "TypeError"
            /\ UNCHANGED << files_to_process, files_to_process_sorted,
                            result, progress >>
       ELSE IF cancel_event
       THEN /\ ProgressCall(Whole(0))
            /\ pc' = IF include_mode THEN "returned" ELSE "gathered"
            /\ result' = IF include_mode THEN 0 ELSE result
            /\ UNCHANGED << files_to_process, files_to_process_sorted,
                            error >>
       ELSE /\ ProgressCall(Whole(0))
            /\ files_to_process' =
                   SourceFiles(source_kind, include_mode, manual_selections,
                               include_patterns, exclude_patterns)
            /\ files_to_process_sorted' = SortedPaths(files_to_process')
            /\ pc' = "gathered"
            /\ UNCHANGED << result, error >>
    /\ cancelled_at_call' = cancel_event
    /\ UNCHANGED ext
    /\ UNCHANGED << inputs, cancel_event, opened, output, idx, reads >>

\* Mutant of WriteReport: the cancel check that follows the sort is lost.
WriteReport_no_cancel_check ==
    /\ pc = "gathered"
    /\ \E listing \in ListingOrders :
           output' =
               _write_report_header(include_mode)
               \o SourceStructure(source_kind, files_to_process,
                                  show_excluded, listing)
               \o (IF filenames_only THEN <<>>
                   ELSE << [kind |-> "contents"] >>)
    /\ opened' = TRUE
    /\ ProgressCall(Whole(25))
    /\ pc' = IF filenames_only THEN "returned" ELSE "contents"
    /\ result' = IF filenames_only
                 THEN Len(files_to_process_sorted)
                 ELSE result
    /\ UNCHANGED ext
    /\ UNCHANGED << inputs, cancel_event, files_to_process,
                    files_to_process_sorted, idx, error, reads,
                    cancelled_at_call >>

\* Mutant of WriteReport: the heading of the contents is written whatever
\* filenames_only is.
WriteReport_heading_always ==
    /\ pc = "gathered"
    /\ IF cancel_event
       THEN /\ pc' = "returned"
            /\ result' = 0
            /\ UNCHANGED << opened, output, progress >>
       ELSE /\ opened' = TRUE
            /\ ProgressCall(Whole(25))
            /\ \E listing \in ListingOrders :
                   output' =
                       _write_report_header(include_mode)
                       \o SourceStructure(source_kind, files_to_process,
                                          show_excluded, listing)
                       \o << [kind |-> "contents"] >>
            /\ pc' = IF filenames_only THEN "returned" ELSE "contents"
            /\ result' = IF filenames_only
                         THEN Len(files_to_process_sorted)
                         ELSE result
    /\ UNCHANGED ext
    /\ UNCHANGED << inputs, cancel_event, files_to_process,
                    files_to_process_sorted, idx, error, reads,
                    cancelled_at_call >>

\* The cancel check after the sort, then the with block up to the loop of
\* _write_file_contents: header, structure and, unless filenames_only, the
\* heading of the contents. The directories are listed in one of the
\* orders the operating system may give.
WriteReport ==
    /\ pc = "gathered"
    /\ IF cancel_event
       THEN /\ pc' = "returned"
            /\ result' = 0
            /\ UNCHANGED << opened, output, progress >>
       ELSE /\ opened' = TRUE
            /\ ProgressCall(Whole(25))
            /\ \E listing \in ListingOrders :
                   output' =
                       _write_report_header(include_mode)
                       \o SourceStructure(source_kind, files_to_process,
                                          show_excluded, listing)
                       \o (IF filenames_only THEN <<>>
                           ELSE << [kind |-> "contents"] >>)
            /\ pc' = IF filenames_only THEN "returned" ELSE "contents"
            /\ result' = IF filenames_only
                         THEN Len(files_to_process_sorted)
                         ELSE result
    /\ UNCHANGED ext
    /\ UNCHANGED << inputs, cancel_event, files_to_process,
                    files_to_process_sorted, idx, error, reads,
                    cancelled_at_call >>

\* Mutant of WriteFileBlock: the try around read_text is lost, a read
\* error ends the call with the exception.
WriteFileBlock_raise ==
    /\ pc = "contents"
    /\ idx < Len(files_to_process_sorted)
    /\ IF cancel_event
       THEN /\ pc' = "returned"
            /\ result' = Len(files_to_process_sorted)
            /\ UNCHANGED << output, idx, reads, error, progress >>
       ELSE \E read_ok \in BOOLEAN :
            /\ ProgressCall(ContentProgress(idx,
                                            Len(files_to_process_sorted)))
            /\ reads' = reads \cup {files_to_process_sorted[idx + 1]}
            /\ IF read_ok
               THEN /\ output' = output \o
                           FileBlock(files_to_process_sorted[idx + 1], TRUE)
                    /\ idx' = idx + 1
                    /\ UNCHANGED << pc, error >>
               ELSE /\ output' = Append(output,
                           FileBlock(files_to_process_sorted[idx + 1],
                                     FALSE)[1])
                    /\ pc' = "raised"
                    /\ error' = "OSError"
                    /\ UNCHANGED idx
            /\ UNCHANGED result
    /\ UNCHANGED ext
    /\ UNCHANGED << inputs, cancel_event, files_to_process,
                    files_to_process_sorted, opened, cancelled_at_call >>

\* Mutant of WriteFileBlock: the turn does not look at the cancel event.
WriteFileBlock_no_cancel_check ==
    /\ pc = "contents"
    /\ idx < Len(files_to_process_sorted)
    /\ \E read_ok \in BOOLEAN :
         /\ ProgressCall(ContentProgress(idx, Len(files_to_process_sorted)))
         /\ reads' = reads \cup {files_to_process_sorted[idx + 1]}
         /\ output' = output \o
                FileBlock(files_to_process_sorted[idx + 1], read_ok)
         /\ idx' = idx + 1
         /\ UNCHANGED << pc, result >>
    /\ UNCHANGED ext
    /\ UNCHANGED << inputs, cancel_event, files_to_process,
                    files_to_process_sorted, opened, error,
                    cancelled_at_call >>

\* One turn of the loop of _write_file_contents: the cancel check, which
\* returns from the function (and the caller then returns the count), or
\* the block of the file. read_text may raise (a file that cannot be
\* opened or has vanished); the except clause writes the error line in
\* place of the content and the turn goes on to the closing delimiter.
WriteFileBlock ==
    /\ pc = "contents"
    /\ idx < Len(files_to_process_sorted)
    /\ IF cancel_event
       THEN /\ pc' = "returned"
            /\ result' = Len(files_to_process_sorted)
            /\ UNCHANGED << output, idx, reads, progress >>
       ELSE \E read_ok \in BOOLEAN :
            /\ ProgressCall(ContentProgress(idx,
                                            Len(files_to_process_sorted)))
            /\ reads' = reads \cup {files_to_process_sorted[idx + 1]}
            /\ output' = output \o
                   FileBlock(files_to_process_sorted[idx + 1], read_ok)
            /\ idx' = idx + 1
            /\ UNCHANGED << pc, result >>
    /\ UNCHANGED ext
    /\ UNCHANGED << inputs, cancel_event, files_to_process,
                    files_to_process_sorted, opened, error,
                    cancelled_at_call >>

\* Mutant of Return: the count of the blocks that hold content is returned.
Return_content_blocks ==
    /\ pc = "contents"
    /\ idx = Len(files_to_process_sorted)
    /\ pc' = "returned"
    /\ result' = Cardinality({ i \in 1..Len(output) :
                     output[i].kind = "body" /\ output[i].text = "content" })
    /\ UNCHANGED ext
    /\ UNCHANGED << inputs, cancel_event, files_to_process,
                    files_to_process_sorted, opened, output, idx, error,
                    reads, cancelled_at_call, progress >>

\* The loop is exhausted: return len(files_to_process_sorted).
Return ==
    /\ pc = "contents"
    /\ idx = Len(files_to_process_sorted)
    /\ pc' = "returned"
    /\ result' = Len(files_to_process_sorted)
    /\ UNCHANGED ext
    /\ UNCHANGED << inputs, cancel_event, files_to_process,
                    files_to_process_sorted, opened, output, idx, error,
                    reads, cancelled_at_call, progress >>

\* Another thread sets the cancel event while the call runs.
Cancel ==
    /\ pc \in {"start", "gathered", "contents"}
    /\ ~cancel_event
    /\ cancel_event' = TRUE
    /\ UNCHANGED ext
    /\ UNCHANGED << inputs, pc, files_to_process, files_to_process_sorted,
                    opened, output, idx, result, error, reads,
                    cancelled_at_call, progress >>

Next ==
    \/ Gather
    \/ WriteReport
    \/ WriteFileBlock
    \/ Return
    \/ Cancel

Spec == Init /\ [][Next]_vars

\* ------------------------------------------------------------------------
\* The calls of tests/test_core.py: run_core_logic passes every argument by
\* keyword, manual_exclusions_str among them, with no patterns and both
\* flags off (the tests of the override set). The calls that fit the
\* signature are kept beside them.
MaxOverride == 1

Overrides == { S \in SUBSET Files : Cardinality(S) <= MaxOverride }

InitTests ==
    /\ call_keywords \in {EngineCall, TestCall}
    /\ include_mode \in BOOLEAN
    /\ manual_selections \in Selections
    /\ manual_exclusions \in
           (IF call_keywords = TestCall THEN Overrides ELSE {{}})
    /\ include_patterns = <<>>
    /\ exclude_patterns = <<>>
    /\ filenames_only = FALSE
    /\ show_excluded = FALSE
    /\ source_kind = "dir"
    /\ RunStart

SpecTests == InitTests /\ [][Next]_vars

\* ------------------------------------------------------------------------
\* The calls that pass a progress callback, with no patterns.
InitProgress ==
    /\ call_keywords = Signature
    /\ include_mode \in BOOLEAN
    /\ manual_selections \in Selections
    /\ manual_exclusions = {}
    /\ include_patterns = <<>>
    /\ exclude_patterns = <<>>
    /\ filenames_only \in BOOLEAN
    /\ show_excluded \in BOOLEAN
    /\ source_kind = "dir"
    /\ RunStart

SpecProgress == InitProgress /\ [][Next]_vars

\* ------------------------------------------------------------------------
\* The engine called on a source that is no directory.
InitSource ==
    /\ call_keywords = EngineCall
    /\ include_mode \in BOOLEAN
    /\ manual_selections \in Selections
    /\ manual_exclusions = {}
    /\ include_patterns = <<>>
    /\ exclude_patterns \in PatternLists
    /\ filenames_only \in BOOLEAN
    /\ show_excluded \in BOOLEAN
    /\ source_kind \in {"file", "missing"}
    /\ RunStart

SpecSource == InitSource /\ [][Next]_vars

\* ------------------------------------------------------------------------
\* cli.py. main checks the source, reads the pattern files, calls the
\* engine in include mode with an empty selection and a cancel event that
\* nothing sets, and exits.
InitCli ==
    /\ call_keywords = CliCall
    /\ include_mode = TRUE
    /\ manual_selections = {}
    /\ manual_exclusions = {}
    /\ include_patterns \in PatternLists
    /\ exclude_patterns \in PatternLists
    /\ filenames_only \in BOOLEAN
    /\ show_excluded = FALSE
    /\ source_kind \in {"dir", "file", "missing"}
    /\ cancel_event = FALSE
    /\ pc = "cli"
    /\ files_to_process = {}
    /\ files_to_process_sorted = <<>>
    /\ opened = FALSE
    /\ output = <<>>
    /\ idx = 0
    /\ result = -1
    /\ error = ""
    /\ reads = {}
    /\ cancelled_at_call = FALSE
    /\ progress = <<>>
    /\ exit_code = -1
    /\ stderr = <<>>
    /\ GuiIdle

\* main up to the call of the engine: a source that is not a directory
\* ends the program with status 1 and a message on sys.stderr.
CliMain ==
    /\ pc = "cli"
    /\ IF source_kind # "dir"
       THEN /\ stderr' = Append(stderr, "not a valid directory")
            /\ exit_code' = 1
            /\ pc' = "exited"
       ELSE /\ pc' = "start"
            /\ UNCHANGED << stderr, exit_code >>
    /\ UNCHANGED << inputs, cancel_event, files_to_process,
                    files_to_process_sorted, opened, output, idx, result,
                    error, reads, cancelled_at_call, progress, gui >>

\* main after the call: an exception is reported on sys.stderr and ends
\* the program with status 1; after a return main prints the count and
\* falls off its end.
CliEnd ==
    /\ pc \in {"returned", "raised"}
    /\ IF pc = "raised"
       THEN /\ stderr' = Append(stderr, "An error occurred during extraction")
            /\ exit_code' = 1
       ELSE /\ exit_code' = 0
            /\ UNCHANGED stderr
    /\ pc' = "exited"
    /\ UNCHANGED << inputs, cancel_event, files_to_process,
                    files_to_process_sorted, opened, output, idx, result,
                    error, reads, cancelled_at_call, progress, gui >>

\* The steps of a run of cli.py. The call names two parameters the engine
\* does not have, so it ends in Gather; the later steps of the engine are
\* never taken by this caller.
NextCli ==
    \/ CliMain
    \/ Gather
    \/ CliEnd

SpecCli == InitCli /\ [][NextCli]_vars

\* ------------------------------------------------------------------------
\* The desktop application. Its specifications leave the engine alone.

core ==
    << inputs, cancel_event, pc, files_to_process, files_to_process_sorted,
       opened, output, idx, result, error, reads, cancelled_at_call,
       progress, exit_code, stderr >>

\* The engine, not called.
CoreIdle ==
    /\ call_keywords = EngineCall
    /\ include_mode = TRUE
    /\ manual_selections = {}
    /\ manual_exclusions = {}
    /\ include_patterns = <<>>
    /\ exclude_patterns = <<>>
    /\ filenames_only = FALSE
    /\ show_excluded = FALSE
    /\ source_kind = "dir"
    /\ cancel_event = FALSE
    /\ pc = "start"
    /\ files_to_process = {}
    /\ files_to_process_sorted = <<>>
    /\ opened = FALSE
    /\ output = <<>>
    /\ idx = 0
    /\ result = -1
    /\ error = ""
    /\ reads = {}
    /\ cancelled_at_call = FALSE
    /\ progress = <<>>
    /\ exit_code = -1
    /\ stderr = <<>>

\* ------------------------------------------------------------------------
\* The selection predicates of the desktop application.

\* any(path_str == p or path_str.startswith(str(Path(p) / "")) for p in
\* selected_paths_set): str(Path(p) / "") is str(Path(p)), it ends with no
\* separator.
is_selected(path, selected_paths_set) ==
    \E p \in selected_paths_set :
        \/ Str(path) = Str(p)
        \/ startswith(Str(path), Str(p))

\* FileProcessor.should_process_path
should_process_path(path, selected_paths_set, incl_mode) ==
    IF incl_mode
    THEN is_selected(path, selected_paths_set)
    ELSE ~is_selected(path, selected_paths_set)

\* Path.parent
parent(path) == SubSeq(path, 1, Len(path) - 1)

\* The paths the loop of the exclude branch visits: current, its parent,
\* and so on up to the source root, or up to the root of the file system
\* for a path that is not below the source root.
WalkedUp(path) ==
    LET stop == IF is_relative_to(path, source_path)
                THEN Len(source_path) ELSE 0
    IN  { SubSeq(path, 1, k) : k \in stop..Len(path) }

\* ThreadedFileProcessor._should_process_path
_should_process_path(path, selected_paths_set, incl_mode) ==
    IF incl_mode
    THEN is_selected(path, selected_paths_set)
    ELSE \A current \in WalkedUp(path) : current \notin selected_paths_set

\* Every path of the tree is asked about, against every enumerated checked
\* set.
InitSelect ==
    /\ CoreIdle
    /\ TreeIdle
    /\ ProcessorIdle
    /\ asked_path \in Entries \cup {source_path}
    /\ asked_set \in Selections
    /\ answers = <<>>

\* The two predicates are called, in both modes.
Ask ==
    /\ answers = <<>>
    /\ answers' =
          [ fp_include |-> should_process_path(asked_path, asked_set, TRUE),
            fp_exclude |-> should_process_path(asked_path, asked_set, FALSE),
            tp_include |-> _should_process_path(asked_path, asked_set, TRUE),
            tp_exclude |-> _should_process_path(asked_path, asked_set, FALSE) ]
    /\ UNCHANGED << core, tree, processor, asked_path, asked_set >>

NextSelect == Ask

SpecSelect == InitSelect /\ [][NextSelect]_vars

\* ------------------------------------------------------------------------
\* The tree view of the desktop application. tree_items is kept as three
\* sets: the paths that have a widget, those whose checkbox variable is
\* True, and those that are expanded.

\* path.rglob("*"): everything below a directory.
rglob(path) == { e \in Entries : is_relative_to(e, path) /\ e # path }

\* _update_descendants(path, is_checked), as the new checked_paths and the
\* new checkbox variables.
_update_descendants(checked, ticked, shown, path, is_checked) ==
    LET paths_to_modify ==
            {path} \cup (IF is_dir(path) THEN rglob(path) ELSE {})
    IN  IF is_checked
        THEN [checked |-> checked \cup paths_to_modify,
              ticked |-> ticked \cup (paths_to_modify \cap shown)]
        ELSE [checked |-> checked \ paths_to_modify,
              ticked |-> ticked \ paths_to_modify]

\* The loop of _update_parents from the directory current upwards: a
\* directory is added when all its direct children are in checked_paths
\* and it is not, removed when some child is not and it is; the loop ends
\* after the source root.
RECURSIVE UpdateParents(_, _, _, _)
UpdateParents(checked, ticked, shown, current) ==
    IF ~is_relative_to(current, source_path)
    THEN [checked |-> checked, ticked |-> ticked]
    ELSE LET all_children_checked ==
                 \A child \in iterdir(current) : child \in checked
             parent_is_currently_checked == current \in checked
             after ==
                 IF ~is_dir(current)
                 THEN [checked |-> checked, ticked |-> ticked]
                 ELSE IF all_children_checked /\ ~parent_is_currently_checked
                 THEN [checked |-> checked \cup {current},
                       ticked |-> ticked \cup ({current} \cap shown)]
                 ELSE IF ~all_children_checked /\ parent_is_currently_checked
                 THEN [checked |-> checked \ {current},
                       ticked |-> ticked \ {current}]
                 ELSE [checked |-> checked, ticked |-> ticked]
         IN  IF current = source_path
             THEN after
             ELSE UpdateParents(after.checked, after.ticked, shown,
                                parent(current))

\* Mutant of _update_parents: the parents are left as they are.
_update_parents_none(checked, ticked, shown, path) ==
    [checked |-> checked, ticked |-> ticked]

\* _update_parents(path)
_update_parents(checked, ticked, shown, path) ==
    UpdateParents(checked, ticked, shown, parent(path))

\* refresh_tree with no saved selection: the widget of the source root is
\* created and expanded, which creates those of its children.
InitTree ==
    /\ CoreIdle
    /\ AskedIdle
    /\ ProcessorIdle
    /\ checked_paths = {}
    /\ tree_items = [shown |-> {source_path} \cup iterdir(source_path),
                     ticked |-> {},
                     expanded |-> {source_path}]
    /\ last_check = <<>>

\* toggle_expand(path) on a directory that has a widget. Expanding creates
\* the widgets of the children, each one ticked by the test of
\* create_tree_item_widget; collapsing drops the widgets of everything
\* below the directory.
toggle_expand(p) ==
    /\ p \in tree_items.shown
    /\ is_dir(p) /\ iterdir(p) # {}
    /\ IF p \notin tree_items.expanded
       THEN LET created == iterdir(p) \ tree_items.shown
            IN  tree_items' =
                  [shown |-> tree_items.shown \cup created,
                   ticked |-> tree_items.ticked \cup
                       { c \in created : is_selected(c, checked_paths) },
                   expanded |-> tree_items.expanded \cup {p}]
       ELSE LET kept == { q \in tree_items.shown :
                            ~is_relative_to(q, p) \/ q = p }
            IN  tree_items' =
                  [shown |-> kept,
                   ticked |-> tree_items.ticked \cap kept,
                   expanded |-> (tree_items.expanded \cap kept) \ {p}]
    /\ UNCHANGED << core, asked, processor, checked_paths, last_check >>

\* A click on the checkbox of a widget: the toolkit flips the variable of
\* the checkbox and calls on_item_check(path_str, var).
on_item_check(p) ==
    /\ p \in tree_items.shown
    /\ LET is_checked == p \notin tree_items.ticked
           flipped == IF is_checked THEN tree_items.ticked \cup {p}
                      ELSE tree_items.ticked \ {p}
           down == _update_descendants(checked_paths, flipped,
                       tree_items.shown, p, is_checked)
           up == _update_parents(down.checked, down.ticked,
                     tree_items.shown, p)
       IN  /\ checked_paths' = up.checked
           /\ tree_items' = [tree_items EXCEPT !.ticked = up.ticked]
           /\ last_check' = [path_str |-> p, is_checked |-> is_checked,
                             before |-> checked_paths]
    /\ UNCHANGED << core, asked, processor >>

select_all ==
    /\ checked_paths' = {source_path} \cup rglob(source_path)
    /\ tree_items' = [tree_items EXCEPT !.ticked = tree_items.shown]
    /\ last_check' = <<>>
    /\ UNCHANGED << core, asked, processor >>

deselect_all ==
    /\ checked_paths' = {}
    /\ tree_items' = [tree_items EXCEPT !.ticked = {}]
    /\ last_check' = <<>>
    /\ UNCHANGED << core, asked, processor >>

NextTree ==
    \/ \E p \in Entries \cup {source_path} : toggle_expand(p)
    \/ \E p \in Entries \cup {source_path} : on_item_check(p)
    \/ select_all
    \/ deselect_all

SpecTree == InitTree /\ [][NextTree]_vars

\* ------------------------------------------------------------------------
\* The threaded processor of the desktop application. The user interface
\* thread runs process_files, cancel_processing, the queue poll and the
\* handlers of the controls; each worker thread runs _process_files_worker.
\* A worker is a record of its position and its local variables; the steps
\* of the threads interleave.

\* How many times process_files starts a worker.
MaxRuns == 2

\* The message types that end a run.
Terminal == {"complete", "cancelled", "error"}

\* A thread that was just started: started_with records the settings of
\* the user interface at the call of process_files.
NewWorker ==
    [ pc |-> "begin",
      started_with |-> [ checked_paths |-> checked_paths,
                         include_mode |-> app_include_mode,
                         filenames_only |-> app_filenames_only ],
      selected_paths |-> {},
      include_mode |-> TRUE,
      filenames_only |-> "unread",
      files_to_process |-> {},
      i |-> 0,
      f_open |-> FALSE,
      terminal |-> 0 ]

\* A thread that ended: its local variables are gone.
Ended_worker(w) ==
    [ NewWorker EXCEPT !.pc = "done",
                       !.started_with = w.started_with,
                       !.terminal = w.terminal ]

\* progress_queue.put of messages of the given types, by worker k, which
\* goes on as the record w.
PutAndGo(k, types, w) ==
    /\ progress_queue' = progress_queue \o types
    /\ workers' = [workers EXCEPT ![k] = w]

\* process_files, with a tab, a source and an output chosen: a call during
\* a run shows a warning and does nothing else; otherwise the cancel event
\* is cleared, is_processing is set and a worker thread is started.
process_files ==
    IF is_processing
    THEN /\ warned' = TRUE
         /\ UNCHANGED << core, tree, asked, app_include_mode,
                         app_filenames_only, is_processing,
                         processor_cancel_event, progress_queue, workers >>
    ELSE /\ Len(workers) < MaxRuns
         /\ processor_cancel_event' = FALSE
         /\ is_processing' = TRUE
         /\ workers' = Append(workers, NewWorker)
         /\ UNCHANGED << core, tree, asked, app_include_mode,
                         app_filenames_only, progress_queue, warned >>

\* cancel_processing
cancel_processing ==
    /\ processor_cancel_event' = (is_processing \/ processor_cancel_event)
    /\ UNCHANGED << core, tree, asked, app_include_mode, app_filenames_only,
                    is_processing, progress_queue, workers, warned >>

\* _check_progress_queue with a message waiting: every message is handled
\* by _handle_progress_message, and a terminal one resets is_processing.
_check_progress_queue ==
    /\ progress_queue # <<>>
    /\ is_processing' =
          IF \E n \in 1..Len(progress_queue) : progress_queue[n] \in Terminal
          THEN FALSE ELSE is_processing
    /\ progress_queue' = <<>>
    /\ UNCHANGED << core, tree, asked, app_include_mode, app_filenames_only,
                    processor_cancel_event, workers, warned >>

\* The radio buttons of the selection mode, which stay enabled during a
\* run.
set_include_mode(value) ==
    /\ app_include_mode' = value
    /\ UNCHANGED << core, tree, asked, app_filenames_only, is_processing,
                    processor_cancel_event, progress_queue, workers, warned >>

\* The filenames-only checkbox, which stays enabled during a run.
toggle_filenames_only ==
    /\ app_filenames_only' = ~app_filenames_only
    /\ UNCHANGED << core, tree, asked, app_include_mode, is_processing,
                    processor_cancel_event, progress_queue, workers, warned >>

\* _process_files_worker up to the early cancellation test: the checked
\* paths and the mode are read here, in the worker thread.
WorkerBegin(k) ==
    LET w == workers[k]
    IN  /\ w.pc = "begin"
        /\ IF processor_cancel_event
           THEN PutAndGo(k, <<"progress", "cancelled">>,
                    Ended_worker([w EXCEPT !.terminal = @ + 1]))
           ELSE PutAndGo(k, <<"progress">>,
                    [w EXCEPT !.pc = "filter",
                              !.selected_paths = checked_paths,
                              !.include_mode = app_include_mode])
        /\ UNCHANGED << core, tree, asked, app_include_mode,
                        app_filenames_only, is_processing,
                        processor_cancel_event, warned >>

\* The filter loop and what follows it up to the call of
\* _write_report_threaded: a cancellation ends the run, no file to process
\* ends it with the "No Files" message.
WorkerFilter(k) ==
    LET w == workers[k]
        files == { p \in rglob(source_path) :
                     /\ is_file(p)
                     /\ _should_process_path(p, w.selected_paths,
                            w.include_mode) }
    IN  /\ w.pc = "filter"
        /\ IF processor_cancel_event
           THEN PutAndGo(k, <<"cancelled">>,
                    Ended_worker([w EXCEPT !.terminal = @ + 1]))
           ELSE IF files = {}
           THEN PutAndGo(k, <<"progress", "complete">>,
                    Ended_worker([w EXCEPT !.terminal = @ + 1]))
           ELSE PutAndGo(k, <<"progress">>,
                    [w EXCEPT !.pc = "open", !.files_to_process = files])
        /\ UNCHANGED << core, tree, asked, app_include_mode,
                        app_filenames_only, is_processing,
                        processor_cancel_event, warned >>

\* _write_report_threaded up to the call of _write_file_contents_threaded:
\* the output is opened, which may fail; the header is written; a
\* cancellation puts its message and returns from inside the with block;
\* otherwise the structure is written and the filenames-only setting is
\* read from the application.
WorkerOpen(k) ==
    LET w == workers[k]
    IN  /\ w.pc = "open"
        /\ \E open_ok \in BOOLEAN :
             IF ~open_ok
             THEN PutAndGo(k, <<"error">>,
                      Ended_worker([w EXCEPT !.terminal = @ + 1]))
             ELSE IF processor_cancel_event
             THEN PutAndGo(k, <<"progress", "cancelled">>,
                      [w EXCEPT !.pc = "returning", !.f_open = TRUE,
                                !.terminal = @ + 1])
             ELSE PutAndGo(k, <<"progress">>,
                      [w EXCEPT !.f_open = TRUE,
                                !.filenames_only = app_filenames_only,
                                !.pc = IF app_filenames_only
                                       THEN "closing" ELSE "contents"])
        /\ UNCHANGED << core, tree, asked, app_include_mode,
                        app_filenames_only, is_processing,
                        processor_cancel_event, warned >>

\* One turn of the loop of _write_file_contents_threaded: after the last
\* file the loop ends; a cancellation returns; otherwise the progress is
\* reported and the block of file i is written.
WorkerBlock(k) ==
    LET w == workers[k]
    IN  /\ w.pc = "contents"
        /\ IF w.i = Cardinality(w.files_to_process) \/ processor_cancel_event
           THEN PutAndGo(k, <<>>, [w EXCEPT !.pc = "closing"])
           ELSE PutAndGo(k, <<"progress">>, [w EXCEPT !.i = @ + 1])
        /\ UNCHANGED << core, tree, asked, app_include_mode,
                        app_filenames_only, is_processing,
                        processor_cancel_event, warned >>

\* The end of the with block: the output is closed.
WorkerClose(k) ==
    LET w == workers[k]
    IN  /\ w.pc \in {"closing", "returning"}
        /\ IF w.pc = "returning"
           THEN PutAndGo(k, <<>>, Ended_worker(w))
           ELSE PutAndGo(k, <<>>, [w EXCEPT !.pc = "after_with",
                                            !.f_open = FALSE])
        /\ UNCHANGED << core, tree, asked, app_include_mode,
                        app_filenames_only, is_processing,
                        processor_cancel_event, warned >>

\* _write_report_threaded after the with block: with the cancel event set
\* it returns and puts nothing; otherwise it puts "complete".
WorkerFinish(k) ==
    LET w == workers[k]
    IN  /\ w.pc = "after_with"
        /\ IF processor_cancel_event
           THEN PutAndGo(k, <<>>, Ended_worker(w))
           ELSE PutAndGo(k, <<"complete">>,
                    Ended_worker([w EXCEPT !.terminal = @ + 1]))
        /\ UNCHANGED << core, tree, asked, app_include_mode,
                        app_filenames_only, is_processing,
                        processor_cancel_event, warned >>

\* The application with the tree of the source shown and nothing checked.
InitThreaded ==
    /\ CoreIdle
    /\ AskedIdle
    /\ ProcessorIdle
    /\ checked_paths = {}
    /\ tree_items = [shown |-> {source_path} \cup iterdir(source_path),
                     ticked |-> {},
                     expanded |-> {source_path}]
    /\ last_check = <<>>

\* The steps of the user and of the threads. Of the tree view the user
\* uses the two buttons that select and deselect everything.
NextThreaded ==
    \/ process_files
    \/ cancel_processing
    \/ _check_progress_queue
    \/ \E value \in BOOLEAN : set_include_mode(value)
    \/ toggle_filenames_only
    \/ select_all
    \/ deselect_all
    \/ \E k \in 1..Len(workers) :
          \/ WorkerBegin(k)
          \/ WorkerFilter(k)
          \/ WorkerOpen(k)
          \/ WorkerBlock(k)
          \/ WorkerClose(k)
          \/ WorkerFinish(k)

SpecThreaded == InitThreaded /\ [][NextThreaded]_vars

\* ------------------------------------------------------------------------
\* The vocabulary of the claims.

\* FinalFileSet: the set the report is written from, defined once the
\* output file was opened.
FinalFileSet == files_to_process

\* A path counts as selected when it or one of its ancestor directories is
\* in the selection (comparison on path boundaries).
CountsAsSelected(path, manual_sel) ==
    \E ms \in manual_sel : is_relative_to(path, ms)

\* CandidateSet of the Selector.
CandidateSet(incl_mode, manual_sel) ==
    { f \in Files : incl_mode <=> CountsAsSelected(f, manual_sel) }

\* The files whose root-relative path or bare name matches a pattern.
Matches(patterns) ==
    { f \in Files : _matches_pattern(relative_to(f, source_path), patterns) }

NoPatterns == include_patterns = <<>> /\ exclude_patterns = <<>>

\* The files that have a block in the contents section.
BlockFiles ==
    { source_path \o output[i].rel :
        i \in { j \in 1..Len(output) : output[j].kind = "file" } }

\* The files printed in the structure section with / without [EXCLUDED].
PrintedExcluded ==
    { output[i].path :
        i \in { j \in 1..Len(output) :
                  /\ output[j].kind = "entry"
                  /\ is_file(output[j].path)
                  /\ output[j].excluded } }

PrintedIncluded ==
    { output[i].path :
        i \in { j \in 1..Len(output) :
                  /\ output[j].kind = "entry"
                  /\ is_file(output[j].path)
                  /\ ~output[j].excluded } }

\* ------------------------------------------------------------------------
\* C1. Every file that matches an include pattern is in FinalFileSet,
\* whatever the mode, the selection and the exclude patterns are.
C1_IncludePatternAlwaysWins ==
    opened => Matches(include_patterns) \subseteq FinalFileSet

\* C2. FinalFileSet = (CandidateSet minus the files that match an exclude
\* pattern) union (the files that match an include pattern).
C2_PipelineEquation ==
    opened =>
        FinalFileSet =
            (CandidateSet(include_mode, manual_selections)
                \ Matches(exclude_patterns))
            \cup Matches(include_patterns)

\* C3. Include mode, no patterns: a file is in the result iff it or one of
\* its ancestor directories is selected.
C3_IncludeModeCandidates ==
    (opened /\ include_mode /\ NoPatterns) =>
        FinalFileSet = CandidateSet(TRUE, manual_selections)

\* C3 witness: the directory s alone is selected and the report was written
\* from exactly its two files.
C3_Witness ==
    /\ pc = "returned"
    /\ opened
    /\ include_mode
    /\ NoPatterns
    /\ manual_selections = { source_path \o << <<"s">> >> }
    /\ FinalFileSet = { source_path \o << <<"s">>, <<"m">> >>,
                        source_path \o << <<"s">>, <<"M">> >> }

\* C4. Exclude mode, no patterns: a file is in the result iff neither it
\* nor an ancestor directory is selected, ancestry on path boundaries.
C4_ExcludeModeCandidates ==
    (opened /\ ~include_mode /\ NoPatterns) =>
        FinalFileSet = CandidateSet(FALSE, manual_selections)

C6_ExcludeEmptySelection ==
    (opened /\ ~include_mode /\ manual_selections = {} /\ NoPatterns) =>
        FinalFileSet = Files

\* C6 witness: such a run returned the count of all files.
C6_Witness ==
    /\ pc = "returned"
    /\ opened
    /\ ~include_mode
    /\ manual_selections = {}
    /\ NoPatterns
    /\ result = Cardinality(Files)

\* The call ended, by a return or by an exception.
Ended == pc \in {"returned", "raised"}

\* C7. Include mode: a file of the override set is left out although an
\* ancestor directory is selected, and the other files of that directory
\* stay in.
C7_OverrideDeselectsChild ==
    (Ended /\ ~cancel_event /\ include_mode) =>
        \A f \in manual_exclusions \cap Files :
            \A d \in manual_selections \cap Dirs :
                is_relative_to(f, d) =>
                    /\ f \notin FinalFileSet
                    /\ \A g \in Files \ manual_exclusions :
                           is_relative_to(g, d) => g \in FinalFileSet

\* C8. Exclude mode: a file of the override set is in the report although
\* an ancestor directory is selected; the other files of that directory
\* stay out and the files outside every selected path stay in.
C8_OverrideReincludesChild ==
    (Ended /\ ~cancel_event /\ ~include_mode) =>
        \A f \in manual_exclusions \cap Files :
            \A d \in manual_selections \cap Dirs :
                is_relative_to(f, d) =>
                    /\ f \in FinalFileSet
                    /\ \A g \in Files \ manual_exclusions :
                           is_relative_to(g, d) => g \notin FinalFileSet
                    /\ \A h \in Files :
                           ~CountsAsSelected(h, manual_selections)
                               => h \in FinalFileSet

\* The selection without the proper descendants of d.
WithoutDescendants(manual_sel, d) ==
    { p \in manual_sel : p = d \/ ~is_relative_to(p, d) }

\* C9, first half. Exclude mode: the descendants of a selected directory
\* add nothing, the result is that of the selection without them.
C9_DescendantsAddNothing ==
    (opened /\ ~include_mode) =>
        \A d \in manual_selections \cap Dirs :
            FinalFileSet =
                GatherAll(FALSE, WithoutDescendants(manual_selections, d),
                          include_patterns, exclude_patterns)

\* C9. Exclude mode: a directory selected alone or with entries beneath it
\* gives the same files, exactly the files outside that directory.
C9_SelectedWithChildren ==
    (opened /\ ~include_mode) =>
        \A d \in manual_selections \cap Dirs :
            /\ FinalFileSet =
                   GatherAll(FALSE, WithoutDescendants(manual_selections, d),
                             include_patterns, exclude_patterns)
            /\ (NoPatterns /\ WithoutDescendants(manual_selections, d) = {d})
                   => FinalFileSet = { f \in Files : ~is_relative_to(f, d) }

\* C10. show_excluded: every file outside FinalFileSet is printed with
\* [EXCLUDED], also inside directories with no included file, and every
\* file of FinalFileSet is printed without it.
C10_ShowExcludedDrawsWholeTree ==
    (opened /\ show_excluded) =>
        /\ PrintedExcluded = Files \ FinalFileSet
        /\ PrintedIncluded = FinalFileSet

\* ------------------------------------------------------------------------
\* The vocabulary of the claims about the report.

\* The run wrote its whole report and returned: the output was opened and
\* the loop of _write_file_contents, if it ran, was exhausted.
Completed ==
    /\ pc = "returned"
    /\ opened
    /\ (filenames_only \/ idx = Len(files_to_process_sorted))

\* The paths printed in the structure section, below the root line.
PrintedEntries ==
    { output[i].path :
        i \in { j \in 1..Len(output) : output[j].kind = "entry" } }

\* The lines of the structure section, in the order of the file.
StructureLines ==
    SelectSeq(output,
              LAMBDA l : l.kind \in {"structure", "root", "entry"})

\* The files printed without [EXCLUDED], in the order of the structure.
StructureFiles ==
    SelectSeq(output,
              LAMBDA l : /\ l.kind = "entry"
                         /\ is_file(l.path)
                         /\ ~l.excluded)

\* The lines that open a file block, in the order of the file.
BlockHeads == SelectSeq(output, LAMBDA l : l.kind = "file")

\* The files of the blocks, in the order of the file.
BlockSeq == [i \in 1..Len(BlockHeads) |-> source_path \o BlockHeads[i].rel]

\* The files the gathering gives for the arguments of the call.
GatheredFromInputs ==
    GatherAll(include_mode, manual_selections, include_patterns,
              exclude_patterns)

\* ------------------------------------------------------------------------
\* C11. show_excluded off: an entry is printed iff it is a file of
\* FinalFileSet or a directory with a file of FinalFileSet beneath it, and
\* no printed line carries [EXCLUDED].
C11_HideExcluded ==
    (opened /\ ~show_excluded) =>
        /\ PrintedEntries =
               FinalFileSet
               \cup { d \in Dirs :
                        \E f \in FinalFileSet : is_relative_to(f, d) }
        /\ \A i \in 1..Len(output) :
               output[i].kind = "entry" => ~output[i].excluded

\* C11 witness: with show_excluded off a report was written that prints
\* some entries and leaves others out.
C11_Witness ==
    /\ opened
    /\ ~show_excluded
    /\ PrintedEntries # {}
    /\ PrintedEntries \cap Files # Files
    /\ PrintedEntries \cap Dirs # Dirs

\* C12. A run that completes with filenames_only off: the files printed
\* without [EXCLUDED], the files with a block and FinalFileSet are one set.
C12_StructureAndContentsAgree ==
    (Completed /\ ~filenames_only) =>
        /\ PrintedIncluded = BlockFiles
        /\ BlockFiles = FinalFileSet

\* C12 witness: a completed run with several blocks, one of them of a file
\* inside a directory, whose structure also prints an excluded file.
C12_Witness ==
    /\ Completed
    /\ ~filenames_only
    /\ show_excluded
    /\ PrintedExcluded # {}
    /\ Cardinality(BlockFiles) >= 2
    /\ \E f \in BlockFiles : Len(f) > Len(source_path) + 1

\* C13. filenames_only: the output holds the header and the structure
\* alone, with no heading of the contents and no file block, no file is
\* read, and the structure is the one the arguments other than
\* filenames_only give.
C13_FilenamesOnly ==
    (opened /\ filenames_only) =>
        /\ reads = {}
        /\ \A i \in 1..Len(output) :
               output[i].kind \notin {"contents", "file", "body", "close"}
        /\ \E listing \in ListingOrders :
               output =
                   _write_report_header(include_mode)
                   \o _write_project_structure(GatheredFromInputs,
                                               show_excluded, listing)

\* C13 witness: a filenames_only run over a non-empty FinalFileSet
\* returned.
C13_Witness ==
    /\ pc = "returned"
    /\ opened
    /\ filenames_only
    /\ Cardinality(FinalFileSet) >= 2
    /\ Len(StructureFiles) >= 2

\* C14. The cancel event is set when the call begins: the output file is
\* never opened and nothing is written or read, in both modes.
C14_CancelledAtCallNeverOpens ==
    cancelled_at_call =>
        /\ ~opened
        /\ output = <<>>
        /\ reads = {}

\* C14 witness: an exclude-mode call with a selection began with the event
\* set and has returned.
C14_Witness ==
    /\ cancelled_at_call
    /\ pc = "returned"
    /\ ~include_mode
    /\ manual_selections # {}
    /\ ~opened

\* What a completed run over an empty FinalFileSet returns:
\* len(files_to_process_sorted) of the empty set.
CompletedEmptyResult == Len(SortedPaths({}))

\* C15. The int a cancelled call returns differs from the one a completed
\* call with no matching file returns. A call that returned without
\* opening the output is a cancelled one.
C15_CancelledDistinctFromEmpty ==
    (pc = "returned" /\ ~opened) => result # CompletedEmptyResult

\* C16. A positive count is returned only by a run that completed: a call
\* whose contents loop stopped at a cancel check does not return the count
\* of a completed run.
C16_CountOnlyWhenCompleted ==
    (pc = "returned" /\ result > 0) => Completed

\* C17. A read error stays inside its block: the error line follows the
\* line that names the file and is followed by the closing delimiter, the
\* loop goes on (after idx turns the blocks are those of the first idx
\* files), the call does not raise, and the count returned is the size of
\* the set gathered before any read, whatever the reads did.
C17_ReadErrorStaysInBlock ==
    /\ \A i \in 1..Len(output) :
           output[i].kind = "body" =>
               /\ output[i - 1].kind = "file"
               /\ i < Len(output)
               /\ output[i + 1].kind = "close"
    /\ BlockSeq = SubSeq(files_to_process_sorted, 1, idx)
    /\ call_keywords \subseteq Signature => error = ""
    /\ Completed => result = Cardinality(files_to_process)

\* C17 witness: a completed run in which a read failed and a later file
\* got its block with its content.
C17_Witness ==
    /\ Completed
    /\ ~filenames_only
    /\ \E i \in 1..Len(output) : \E j \in 1..Len(output) :
           /\ i < j
           /\ output[i].kind = "body"
           /\ output[i].text = "[Error reading file]"
           /\ output[j].kind = "body"
           /\ output[j].text = "content"

\* C18 as stated. The int a completed run returns is the size of
\* FinalFileSet and the number of file blocks written.
C18_CountIsBlocksWritten ==
    Completed =>
        /\ result = Cardinality(FinalFileSet)
        /\ result = Len(BlockHeads)

\* C18. The int a completed run returns is the size of FinalFileSet; it is
\* the number of file blocks written when filenames_only is off.
C18_CountIsFinalFileSet ==
    Completed =>
        /\ result = Cardinality(FinalFileSet)
        /\ ~filenames_only => result = Len(BlockHeads)

\* C18 witness: a completed run with contents returned 3, one of its reads
\* having failed.
C18_Witness ==
    /\ Completed
    /\ ~filenames_only
    /\ result = 3
    /\ \E i \in 1..Len(output) :
           output[i].kind = "body" /\ output[i].text # "content"

\* The position of a file among the files of the structure.
StructurePos(path) ==
    CHOOSE i \in 1..Len(StructureFiles) : StructureFiles[i].path = path

\* C19 as stated. The file blocks come in the order in which their files
\* come in the structure section.
C19_BlocksInStructureOrder ==
    (opened /\ ~filenames_only) =>
        LET blocks == BlockSeq
        IN  \A i \in 1..Len(blocks) : \A j \in 1..Len(blocks) :
                i < j => StructurePos(blocks[i]) < StructurePos(blocks[j])

\* C19. The file blocks come in ascending order of their paths, compared
\* part by part and case-sensitively, as sorted() of the Paths gives.
C19_BlocksInPathOrder ==
    LET blocks == BlockSeq
    IN  \A i \in 1..Len(blocks) : \A j \in 1..Len(blocks) :
            i < j => PathLess(blocks[i], blocks[j])

\* C19 witness: the block of the root file L was written before the block
\* of s/m, and the structure prints s/m before L.
C19_Witness ==
    /\ Completed
    /\ \E i \in 1..Len(BlockSeq) : \E j \in 1..Len(BlockSeq) :
           /\ i < j
           /\ BlockSeq[i] = source_path \o << <<"L">> >>
           /\ BlockSeq[j] = source_path \o << <<"s">>, <<"m">> >>
           /\ StructurePos(BlockSeq[j]) < StructurePos(BlockSeq[i])

\* C20. The report does not depend on the order in which the directories
\* are listed: the structure section written is the one every listing
\* order gives.
C20_ReportIndependentOfListing ==
    opened =>
        \A listing \in ListingOrders :
            StructureLines =
                _write_project_structure(files_to_process, show_excluded,
                                         listing)

\* C20, the part that holds: FinalFileSet and the order of the file blocks
\* of a completed run are functions of the arguments.
C20_FilesIndependentOfListing ==
    Completed =>
        /\ FinalFileSet = GatheredFromInputs
        /\ BlockSeq = SubSeq(SortedPaths(GatheredFromInputs), 1, idx)

\* ------------------------------------------------------------------------
\* C21. The percentages passed to the progress callback in one run never
\* decrease and lie in [0,100]: 0 first, 25 before the structure, then
\* 25 + (i/total)*75 for the i-th file, i from 0.
C21_ProgressMonotone ==
    LET total == Len(files_to_process_sorted)
    IN  /\ \A k \in 1..Len(progress) :
               /\ RatLeq(Whole(0), progress[k])
               /\ RatLeq(progress[k], Whole(100))
               /\ k > 1 => RatLeq(progress[k - 1], progress[k])
        /\ Len(progress) >= 1 => progress[1] = Whole(0)
        /\ Len(progress) >= 2 => progress[2] = Whole(25)
        /\ \A k \in 3..Len(progress) :
               /\ k - 3 < total
               /\ progress[k].num * total
                      = (25 * total + 75 * (k - 3)) * progress[k].den

\* C21 witness: a run over three files or more reported the progress of
\* each of them and returned.
C21_Witness ==
    /\ pc = "returned"
    /\ Len(progress) >= 5
    /\ Len(progress) = Len(files_to_process_sorted) + 2

\* C22. A source that does not exist or is no directory: the run fails
\* with an error before the output file is opened, and nothing is written.
C22_BadSourceFailsFast ==
    source_kind # "dir" =>
        /\ ~opened
        /\ output = <<>>
        /\ pc # "returned"

\* C22 for the command line: with such a source cli.py exits with status 1
\* and never calls the engine.
C22_CliFailsFast ==
    (source_kind # "dir" /\ pc = "exited") =>
        /\ ~opened
        /\ exit_code = 1
        /\ stderr # <<>>
        /\ error = ""

\* C23. cli.py exits with status 0 and a written report when the source is
\* a directory, and with a status other than 0 and a message on standard
\* error when the source is no directory or the extraction failed.
C23_CliExitCodes ==
    pc = "exited" =>
        /\ source_kind = "dir" => (exit_code = 0 /\ opened)
        /\ (source_kind # "dir" \/ error # "") =>
               (exit_code # 0 /\ stderr # <<>>)

\* C28: a selection predicate of the desktop application counts a path as
\* selected exactly when the path or one of its ancestors is in the checked
\* set, and what it returns in include mode is the negation of what it
\* returns in exclude mode.
C28_SelectedIffAncestorChecked ==
    answers # <<>> =>
        /\ answers.fp_include = CountsAsSelected(asked_path, asked_set)
        /\ answers.tp_include = CountsAsSelected(asked_path, asked_set)
        /\ answers.fp_include = ~answers.fp_exclude
        /\ answers.tp_include = ~answers.tp_exclude

\* The directories above a path, up to the source root.
Ancestors(p) ==
    { SubSeq(p, 1, k) : k \in Len(source_path)..(Len(p) - 1) }

\* C30: every directory that has a child is in checked_paths exactly when
\* all its direct children are; and after an item was unchecked, the item,
\* what is below it and the directories above it are not in checked_paths,
\* while every other path is in checked_paths exactly when it was before.
C30_ParentCheckedIffChildren ==
    /\ \A d \in Dirs \cup {source_path} :
          iterdir(d) # {} =>
              (d \in checked_paths <=> iterdir(d) \subseteq checked_paths)
    /\ (last_check # <<>> /\ ~last_check.is_checked) =>
          LET x == last_check.path_str
              undone == {x} \cup rglob(x) \cup Ancestors(x)
          IN  /\ undone \cap checked_paths = {}
              /\ checked_paths \ undone = last_check.before \ undone

\* A directory was checked with all that is below it, then one of its
\* descendants was unchecked, and another descendant is still checked.
C30_Witness ==
    /\ last_check # <<>>
    /\ ~last_check.is_checked
    /\ \E d \in Ancestors(last_check.path_str) :
          /\ {d} \cup rglob(d) \subseteq last_check.before
          /\ rglob(d) \cap checked_paths # {}

\* C24: what a worker uses as checked paths, as mode and as filenames-only
\* setting, and so what its report holds, is what the user interface held
\* when process_files started the run.
C24_SettingsOfTheStart ==
    \A k \in 1..Len(workers) :
        LET w == workers[k]
        IN  /\ w.pc \notin {"begin", "done"} =>
                  /\ w.selected_paths = w.started_with.checked_paths
                  /\ w.include_mode = w.started_with.include_mode
            /\ w.filenames_only # "unread" =>
                  w.filenames_only = w.started_with.filenames_only

\* C25: a worker thread that has ended has put exactly one terminal message
\* on the progress queue.
C25_OneTerminalMessage ==
    \A k \in 1..Len(workers) :
        workers[k].pc = "done" => workers[k].terminal = 1

\* C27: at no time do two worker threads hold the output file open.
C27_OneWriter ==
    Cardinality({ k \in 1..Len(workers) : workers[k].f_open }) <= 1

\* C27, the part about a call during a run: while is_processing is true, no
\* step starts a thread and no step clears the cancel event.
C27_BusyCallDoesNothing ==
    [][is_processing =>
          /\ Len(workers') = Len(workers)
          /\ processor_cancel_event => processor_cancel_event']_vars

\* C26: once the cancel event is set in the content phase, nothing more is
\* written to the report: no block of a later file is started.
C26_NoBlockAfterCancel ==
    [][(cancel_event /\ pc = "contents") => output' = output]_vars

\* A run that was cancelled in the content phase: some blocks were written
\* and some files have none.
C26_Witness ==
    /\ cancel_event
    /\ ~cancelled_at_call
    /\ pc = "returned"
    /\ 0 < idx
    /\ idx < Len(files_to_process_sorted)

\* C26 for the worker of the desktop application: with the cancel event set,
\* a worker in the content loop writes no further block.
C26_WorkerStartsNoBlock ==
    [][\A k \in 1..Len(workers) :
          (processor_cancel_event /\ workers[k].pc = "contents") =>
              workers'[k].i = workers[k].i]_vars

\* C29: in the structure section an entry has the connector of a last entry
\* exactly when no later entry of its directory is printed, and the entries
\* printed below a directory continue its prefix with blanks exactly when
\* the directory is the last entry printed at its level.
C29_LastPrintedClosesLevel ==
    LET entries == { i \in 1..Len(output) : output[i].kind = "entry" }
        last_printed(i) ==
            \A j \in entries :
                j > i => parent(output[j].path) # parent(output[i].path)
    IN  \A i \in entries :
            /\ output[i].connector = CONNECTOR_LAST <=> last_printed(i)
            /\ \A j \in entries :
                   parent(output[j].path) = output[i].path =>
                       output[j].prefix =
                           output[i].prefix \o
                               <<IF last_printed(i) THEN INDENT_LAST
                                 ELSE INDENT_MID>>

====
